---- MODULE Spec2Model ----
(***************************************************************************)
(* A model of the LOF back-testing engine: the Account ledger with T+2     *)
(* settlement (src/src/engine/account.py), the tiered subscription fee and *)
(* the day loop of BacktestEngine.run (src/src/engine/backtest.py).        *)
(*                                                                         *)
(* Numbers.  The code computes with floats; the model computes in fixed    *)
(* point on the integers, every product with a rate or a price rounded     *)
(* down to the grid:                                                       *)
(*   money and share counts  integers                                      *)
(*   prices (close, nav)     hundredths (100 is a price of 1.00)           *)
(*   premium, commission and liquidity rates   percent                     *)
(*   subscription fee rates  per mille                                     *)
(* The code's tolerance 1e-9 is finer than the grid, so on the grid        *)
(* "x > y + 1e-9" is "x > y" and "x < 1e-9" is "x <= 0".                   *)
(***************************************************************************)
EXTENDS Integers, Sequences, FiniteSets, TLC

VARIABLES
    account,        \* the Account: cash, positions, pending, current_date
    raised,         \* the exception the last Account call raised, or "none"
    call,           \* history: the last call of Account.buy or Account.sell
    settle_log,     \* history: which purchase matured at which update_date
    config,         \* the BacktestConfig of the run
    ticker_list,    \* run(): the normalised list of requested tickers
    trading_days,   \* the trading calendar (aligned dates, ascending)
    day,            \* run(): index in trading_days of the day in progress
    pc,             \* run(): position in the day loop
    idx,            \* run(): index of the running for loop
    rows,           \* run(): all_data[ticker].loc[timestamp], per ticker
    vol_hist,       \* the volumes of the earlier rows, per ticker (rolling)
    buy_candidates, \* run(): the day's buy candidates
    trade_records,  \* run(): the trade log
    daily_records,  \* run(): the daily snapshots
    fee_call,       \* the last call of calculate_subscription_fee
    store,          \* the data directory: the bundle of each requested ticker
    cfg_args,       \* the arguments of the last BacktestConfig(...) call
    dd_call,        \* an equity series and the max_drawdown of its result
    limits,         \* the rows of limit_events and the daily limits of each ticker
    proc            \* AnnouncementProcessor: the last process_pdf call, the
                    \* stored parse results

vars == <<account, raised, call, settle_log, config, ticker_list,
          trading_days, day, pc, idx, rows, vol_hist, buy_candidates,
          trade_records, daily_records, fee_call, store, cfg_args,
          dd_call, limits, proc>>

engine_vars == <<config, ticker_list, day, pc, idx, rows, vol_hist,
                 buy_candidates, trade_records, daily_records>>

\* what no step of a run, of the Account or of the fee changes
aux_vars == <<store, cfg_args, dd_call, limits, proc>>

-----------------------------------------------------------------------------
(* Helpers *)

Min(a, b) == IF a <= b THEN a ELSE b

Range(s) == {s[i] : i \in DOMAIN s}

RECURSIVE SumShares(_, _)
\* sum of p.shares over the entries p of s with p.ticker = t
SumShares(s, t) ==
    IF s = <<>> THEN 0
    ELSE (IF Head(s).ticker = t THEN Head(s).shares ELSE 0)
         + SumShares(Tail(s), t)

\* x * pct / 100 and x * pm / 1000 on the grid (rounded down)
Percent(x, pct) == (x * pct) \div 100
PerMille(x, pm) == (x \div 1000) * pm + ((x % 1000) * pm) \div 1000

\* shares * price and amount / price, prices in hundredths
TimesPrice(shares, price) == (shares * price) \div 100
DivPrice(amount, price) == (amount * 100) \div price

\* list.index(x): the first position of x in s, 0 when x is not in s
IndexOf(s, x) ==
    IF \E i \in DOMAIN s : s[i] = x
    THEN CHOOSE i \in DOMAIN s : s[i] = x /\ \A j \in 1..(i - 1) : s[j] # x
    ELSE 0

-----------------------------------------------------------------------------
(* Account (src/src/engine/account.py) *)

Tickers == {"A", "B"}

\* _current_date: Optional[date] = None
NoDate == 0

\* history: no call of buy or sell in this step
NoCall == [op |-> "none", ticker |-> "", qty |-> 0]

\* Account(cash=c): no positions, nothing pending, no current date
NewAccount(c) ==
    [cash |-> c, positions |-> <<>>, pending |-> <<>>, current_date |-> NoDate]

get_available_shares(a, t) ==
    IF t \in DOMAIN a.positions THEN a.positions[t] ELSE 0

get_pending_shares(a, t) ==
    SumShares(a.pending, t)

get_total_shares(a, t) == get_available_shares(a, t) + get_pending_shares(a, t)

\* the pending entries update_date(d) matures
Matured(a, d) == SelectSeq(a.pending, LAMBDA p : p.settle_date <= d)

\* update_date with the matured shares dropped instead of settled
update_date_dropping(a, d) ==
    [a EXCEPT !.current_date = d,
              !.pending = SelectSeq(a.pending, LAMBDA p : ~(p.settle_date <= d))]

\* update_date that settles what matured but leaves _current_date as it was
update_date_stale(a, d) ==
    LET matured == Matured(a, d)
        touched == {matured[i].ticker : i \in DOMAIN matured}
    IN  [a EXCEPT !.positions =
                    [t \in (DOMAIN a.positions) \cup touched |->
                       get_available_shares(a, t) + SumShares(matured, t)],
                  !.pending =
                    SelectSeq(a.pending, LAMBDA p : ~(p.settle_date <= d))]

update_date(a, d) ==
    LET matured == Matured(a, d)
        still   == SelectSeq(a.pending, LAMBDA p : ~(p.settle_date <= d))
        touched == {matured[i].ticker : i \in DOMAIN matured}
        newpos  == [t \in (DOMAIN a.positions) \cup touched |->
                      get_available_shares(a, t) + SumShares(matured, t)]
    IN  [a EXCEPT !.current_date = d, !.positions = newpos, !.pending = still]

\* sell with the request clamped to the settled shares instead of refused
sell_clamped(a, t, shares, price, commission_rate) ==
    LET available == get_available_shares(a, t)
        sold      == Min(shares, available)
        net       == TimesPrice(sold, price)
                       - Percent(TimesPrice(sold, price), commission_rate)
    IN  IF t \notin DOMAIN a.positions
        THEN [account |-> a, raised |-> "KeyError", ret |-> 0]
        ELSE [account |-> [a EXCEPT !.positions[t] = available - sold,
                                    !.cash = a.cash + net],
              raised |-> "none", ret |-> net]

\* Account.sell that hands out the proceeds without crediting the cash
sell_uncredited(a, t, shares, price, commission_rate) ==
    LET available    == get_available_shares(a, t)
        gross        == TimesPrice(shares, price)
        net_proceeds == gross - Percent(gross, commission_rate)
        left         == available - shares
    IN  IF shares > available
        THEN [account |-> a, raised |-> "InsufficientShares", ret |-> 0]
        ELSE IF t \notin DOMAIN a.positions
        THEN [account |-> a, raised |-> "KeyError", ret |-> 0]
        ELSE [account |-> [a EXCEPT
                  !.positions[t] = IF left <= 0 THEN 0 ELSE left],
              raised |-> "none", ret |-> net_proceeds]

\* sell: the account after the call, what it raised, what it returned
sell(a, t, shares, price, commission_rate) ==
    LET available      == get_available_shares(a, t)
        gross_proceeds == TimesPrice(shares, price)
        commission     == Percent(gross_proceeds, commission_rate)
        net_proceeds   == gross_proceeds - commission
        left           == available - shares
    IN  IF shares > available
        THEN [account |-> a, raised |-> "InsufficientShares", ret |-> 0]
        ELSE IF t \notin DOMAIN a.positions
        THEN [account |-> a, raised |-> "KeyError", ret |-> 0]
        ELSE [account |-> [a EXCEPT
                  !.positions[t] = IF left <= 0 THEN 0 ELSE left,
                  !.cash = a.cash + net_proceeds],
              raised |-> "none", ret |-> net_proceeds]

\* the fallback offsets of _calculate_t2_date, in calendar days
NotInCalendarOffset == 2
BeyondCalendarOffset == 4

\* _calculate_t2_date settling one trading day after the purchase
calculate_t1_date(a, days) ==
    LET current_idx == IndexOf(days, a.current_date)
        settle_idx  == current_idx + 1
    IN  IF a.current_date = NoDate THEN NoDate
        ELSE IF current_idx = 0 THEN a.current_date + NotInCalendarOffset
        ELSE IF settle_idx <= Len(days) THEN days[settle_idx]
        ELSE a.current_date + BeyondCalendarOffset

\* _calculate_t2_date; 0 stands for the ValueError "Current date not set"
calculate_t2_date(a, days) ==
    LET current_idx == IndexOf(days, a.current_date)
        settle_idx  == current_idx + 2
    IN  IF a.current_date = NoDate THEN NoDate
        ELSE IF current_idx = 0 THEN a.current_date + NotInCalendarOffset
        ELSE IF settle_idx <= Len(days) THEN days[settle_idx]
        ELSE a.current_date + BeyondCalendarOffset

\* Account.buy that puts the shares among the settled positions at once
buy_settled(a, t, amount, nav, fee, days) ==
    LET shares == DivPrice(amount - fee, nav)
    IN  IF amount > a.cash
        THEN [account |-> a, raised |-> "InsufficientCash", ret |-> 0]
        ELSE [account |-> [a EXCEPT
                  !.cash = a.cash - amount,
                  !.positions = [u \in (DOMAIN a.positions) \cup {t} |->
                                   get_available_shares(a, u)
                                     + (IF u = t THEN shares ELSE 0)]],
              raised |-> "none", ret |-> shares]

\* buy: the account after the call, what it raised, what it returned.
\* The pending entry carries bought_idx, a history field the code does not
\* have: the index in days of the day of the purchase (0: not a trading day).
buy(a, t, amount, nav, fee, days) ==
    LET net_amount  == amount - fee
        shares      == DivPrice(net_amount, nav)
        settle_date == calculate_t2_date(a, days)
        paid        == [a EXCEPT !.cash = a.cash - amount]
        entry       == [settle_date |-> settle_date, ticker |-> t,
                        shares |-> shares,
                        bought_idx |-> IndexOf(days, a.current_date)]
    IN  IF amount > a.cash
        THEN [account |-> a, raised |-> "InsufficientCash", ret |-> 0]
        ELSE IF nav = 0
        THEN [account |-> a, raised |-> "ZeroDivisionError", ret |-> 0]
        ELSE IF a.current_date = NoDate
        THEN [account |-> paid, raised |-> "DateNotSet", ret |-> 0]
        ELSE [account |-> [paid EXCEPT !.pending = Append(a.pending, entry)],
              raised |-> "none", ret |-> shares]

\* prices.get(ticker, 0.0)
PriceOf(prices, t) == IF t \in DOMAIN prices THEN prices[t] ELSE 0

RECURSIVE PendingValue(_, _)
PendingValue(s, prices) ==
    IF s = <<>> THEN 0
    ELSE TimesPrice(Head(s).shares, PriceOf(prices, Head(s).ticker))
         + PendingValue(Tail(s), prices)

RECURSIVE SettledValue(_, _, _)
SettledValue(pos, ts, prices) ==
    IF ts = {} THEN 0
    ELSE LET t == CHOOSE x \in ts : TRUE
         IN  TimesPrice(pos[t], PriceOf(prices, t))
             + SettledValue(pos, ts \ {t}, prices)

\* get_total_value without the pending settlements
get_total_value_settled(a, prices) ==
    a.cash + SettledValue(a.positions, DOMAIN a.positions, prices)

get_total_value(a, prices) ==
    LET positions_value == SettledValue(a.positions, DOMAIN a.positions, prices)
        pending_value   == PendingValue(a.pending, prices)
    IN  a.cash + positions_value + pending_value

get_positions_value(a, prices) ==
    LET settled_value == SettledValue(a.positions, DOMAIN a.positions, prices)
        pending_value == PendingValue(a.pending, prices)
    IN  settled_value + pending_value

\* history: the purchases an update_date(d) matures, with the date and the
\* calendar index (0: not a trading day) at which they mature
Settlements(a, d, days) ==
    LET m == Matured(a, d)
    IN  {[bought_idx |-> m[i].bought_idx, date |-> d,
          settled_idx |-> IndexOf(days, d)] : i \in DOMAIN m}

-----------------------------------------------------------------------------
(* Subscription fee (src/src/engine/backtest.py) *)

\* the fee with the tier boundaries in the lower tier
fee_boundary_below(amount, attrs) ==
    IF amount <= attrs.fee_limit_1
    THEN PerMille(amount, attrs.fee_rate_tier_1)
    ELSE IF amount <= attrs.fee_limit_2
    THEN PerMille(amount, attrs.fee_rate_tier_2)
    ELSE attrs.fee_fixed

calculate_subscription_fee(amount, attrs) ==
    IF amount < attrs.fee_limit_1
    THEN PerMille(amount, attrs.fee_rate_tier_1)
    ELSE IF amount < attrs.fee_limit_2
    THEN PerMille(amount, attrs.fee_rate_tier_2)
    ELSE attrs.fee_fixed

\* DataLoader.DEFAULT_FEES, money in units of 1/200 yuan (half a fen), the
\* coarsest unit in which 1.5% and 1.0% of a whole yuan are whole numbers
Yuan(y) == 200 * y

DEFAULT_FEES ==
    [fee_rate_tier_1 |-> 15, fee_limit_1 |-> Yuan(500000),
     fee_rate_tier_2 |-> 10, fee_limit_2 |-> Yuan(2000000),
     fee_fixed |-> Yuan(1000)]

\* the fee schedules of the two funds of the engine runs (config/fees.csv),
\* in the engine's money units
FeeAttrs(t) ==
    IF t = "A"
    THEN [fee_rate_tier_1 |-> 100, fee_limit_1 |-> 20,
          fee_rate_tier_2 |-> 50, fee_limit_2 |-> 40, fee_fixed |-> 1]
    ELSE [fee_rate_tier_1 |-> 1000, fee_limit_1 |-> 12,
          fee_rate_tier_2 |-> 100, fee_limit_2 |-> 30, fee_fixed |-> 2]

-----------------------------------------------------------------------------
(* BacktestConfig (src/src/config.py) *)

\* __post_init__ with the liquidity ratio in the open interval (0, 1)
post_init_open(c) ==
    /\ ~(c.initial_cash <= 0)
    /\ 0 < c.liquidity_ratio /\ c.liquidity_ratio < 100
    /\ ~(c.commission_rate < 0)
    /\ c.risk_mode \in {"fixed", "infinite"}
    /\ ~(c.risk_free_rate < 0)

\* __post_init__: TRUE when construction succeeds
post_init_ok(c) ==
    /\ ~(c.initial_cash <= 0)
    /\ 0 <= c.liquidity_ratio /\ c.liquidity_ratio <= 100
    /\ ~(c.commission_rate < 0)
    /\ c.risk_mode \in {"fixed", "infinite"}
    /\ ~(c.risk_free_rate < 0)

\* buy_threshold: float = 0.02, risk_free_rate: float = 0.02 (percent)
DefaultBuyThreshold == 2
DefaultRiskFreeRate == 2

MakeConfig(cash, liq, comm, mode, ma5) ==
    [initial_cash |-> cash, liquidity_ratio |-> liq,
     buy_threshold |-> DefaultBuyThreshold, commission_rate |-> comm,
     risk_mode |-> mode, use_ma5_liquidity |-> ma5,
     risk_free_rate |-> DefaultRiskFreeRate]

\* the configurations of the runs: a cash-bounded one with the 5-day
\* liquidity floor, an unbounded one, and one whose commission exceeds 100%
Configs ==
    {c \in {MakeConfig(40, 50, 10, "fixed", TRUE),
            MakeConfig(40, 100, 0, "infinite", FALSE),
            MakeConfig(40, 100, 150, "fixed", FALSE)} : post_init_ok(c)}

-----------------------------------------------------------------------------
(* Bars (src/src/data/loader.py, BacktestEngine._load_multi_data) *)

\* float("inf"): no daily limit, no cap
Inf == 1000000

\* df["premium_rate"] = (close - nav) / nav, in percent
premium_rate(close, nav) == ((close - nav) * 100) \div nav

\* the bars fund A can have on a day: premium equal to the threshold; 5%
\* premium with a daily limit and a thin volume; 10% premium, unrestricted;
\* 10% premium with subscription closed.  Fund B: a discount; 5% premium
\* with a daily limit; 10% premium, unrestricted
Bars(t) ==
    IF t = "A"
    THEN {[close |-> 102, nav |-> 100, volume |-> 1000, daily_limit |-> Inf],
          [close |-> 105, nav |-> 100, volume |-> 20, daily_limit |-> 15],
          [close |-> 110, nav |-> 100, volume |-> 1000, daily_limit |-> Inf],
          [close |-> 110, nav |-> 100, volume |-> 1000, daily_limit |-> 0]}
    ELSE {[close |-> 99, nav |-> 100, volume |-> 1000, daily_limit |-> Inf],
          [close |-> 105, nav |-> 100, volume |-> 1000, daily_limit |-> 15],
          [close |-> 110, nav |-> 100, volume |-> 1000, daily_limit |-> Inf]}

\* a NULL end_date: pd.to_datetime gives NaT
NaT == 0

\* the mask with the end date excluded
InPeriod_endexcluded(d, event) ==
    IF event.end_date = NaT
    THEN d >= event.start_date
    ELSE d >= event.start_date /\ d < event.end_date

\* the mask of _resample_limits_to_daily: the date is in the event's period
InPeriod(d, event) ==
    IF event.end_date = NaT
    THEN d >= event.start_date
    ELSE d >= event.start_date /\ d <= event.end_date

\* an event lowering the limit of its dates, never raising it
ApplyEvent_min(daily_limits, date_index, event) ==
    [i \in DOMAIN date_index |->
       IF InPeriod(date_index[i], event)
       THEN Min(daily_limits[i], event.max_amount)
       ELSE daily_limits[i]]

\* daily_limits.loc[mask] = max_amount
ApplyEvent(daily_limits, date_index, event) ==
    [i \in DOMAIN date_index |->
       IF InPeriod(date_index[i], event) THEN event.max_amount
       ELSE daily_limits[i]]

RECURSIVE ApplyEvents(_, _, _)
\* for _, event in df_limits.iterrows()
ApplyEvents(daily_limits, date_index, events) ==
    IF events = <<>> THEN daily_limits
    ELSE ApplyEvents(ApplyEvent(daily_limits, date_index, Head(events)),
                     date_index, Tail(events))

\* _resample_limits_to_daily(ticker, date_index) over the rows db of the
\* table limit_events (none when there is no database): the daily limit of
\* each date of date_index
resample_limits_to_daily(ticker, date_index, db) ==
    LET df_limits == SelectSeq(db, LAMBDA ev : ev.ticker = ticker)
    IN  ApplyEvents([i \in DOMAIN date_index |-> Inf], date_index, df_limits)

RECURSIVE SumSeq(_)
SumSeq(s) == IF s = <<>> THEN 0 ELSE Head(s) + SumSeq(Tail(s))

\* the last n elements of s
LastN(s, n) == IF Len(s) <= n THEN s ELSE SubSeq(s, Len(s) - n + 1, Len(s))

\* df['volume'].rolling(5, min_periods=1).mean() at the row whose volume is
\* last in vols
Rolling5Mean(vols) == SumSeq(LastN(vols, 5)) \div Len(LastN(vols, 5))

\* the row of all_data[ticker] for a bar, given the earlier volumes
MakeRow(bar, hist, cfg) ==
    [close |-> bar.close, nav |-> bar.nav, volume |-> bar.volume,
     daily_limit |-> bar.daily_limit,
     premium_rate |-> premium_rate(bar.close, bar.nav),
     ma5_volume |-> IF cfg.use_ma5_liquidity
                    THEN Rolling5Mean(Append(hist, bar.volume))
                    ELSE bar.volume]

-----------------------------------------------------------------------------
(* BacktestResult.max_drawdown (src/src/engine/backtest.py) *)

\* A drawdown is a quotient of two grid numbers: it is kept as the fraction
\* num/den with den > 0.  np.nan_to_num turns 0/0 into 0.0 and x/0 into the
\* largest float (x > 0) or the smallest (x < 0), here +-Inf/1.
Frac(n, d) ==
    IF d > 0 THEN [num |-> n, den |-> d]
    ELSE IF d < 0 THEN [num |-> 0 - n, den |-> 0 - d]
    ELSE IF n = 0 THEN [num |-> 0, den |-> 1]
    ELSE IF n > 0 THEN [num |-> Inf, den |-> 1]
    ELSE [num |-> 0 - Inf, den |-> 1]

FracLess(a, b) == a.num * b.den < b.num * a.den
FracEq(a, b) == a.num * b.den = b.num * a.den

RECURSIVE MaximumAccumulate(_)
\* np.maximum.accumulate(values)
MaximumAccumulate(s) ==
    IF Len(s) <= 1 THEN s
    ELSE LET head == MaximumAccumulate(SubSeq(s, 1, Len(s) - 1))
             prev == head[Len(head)]
         IN  Append(head, IF s[Len(s)] > prev THEN s[Len(s)] ELSE prev)

RECURSIVE MaxFrac(_)
\* np.max(drawdowns), drawdowns not empty
MaxFrac(s) ==
    IF Len(s) = 1 THEN s[1]
    ELSE LET m == MaxFrac(Tail(s))
         IN  IF FracLess(m, s[1]) THEN s[1] ELSE m

\* the drawdown against the highest value of the whole series
max_drawdown_globalpeak(total_assets) ==
    IF total_assets = <<>> THEN Frac(0, 1)
    ELSE LET acc  == MaximumAccumulate(total_assets)
             peak == acc[Len(acc)]
         IN  MaxFrac([i \in DOMAIN total_assets |->
                        Frac(peak - total_assets[i], peak)])

\* max_drawdown of a result whose daily_perf has the column total_assets
max_drawdown(total_assets) ==
    IF total_assets = <<>> THEN Frac(0, 1)
    ELSE LET running_max == MaximumAccumulate(total_assets)
             drawdowns   == [i \in DOMAIN total_assets |->
                               Frac(running_max[i] - total_assets[i],
                                    running_max[i])]
         IN  MaxFrac(drawdowns)

-----------------------------------------------------------------------------
(* AnnouncementProcessor (src/src/data/announcement_processor.py) *)

\* the result dictionary process_pdf starts from
NewResult ==
    [success |-> FALSE, extracted |-> FALSE, parsed |-> FALSE,
     stored |-> FALSE, is_limit_announcement |-> FALSE,
     parse_result |-> "None", error |-> "None"]

\* The table announcement_parses: whether it has a UNIQUE index on
\* (ticker, announcement_date, pdf_filename), the next AUTOINCREMENT id, and
\* its rows.  process_pdf is called for one ticker and takes the date from
\* the file name, so the file name stands for the three columns.
\* RealDataDownloader._create_announcement_parses_table: the primary key id
\* and two plain indexes
create_announcement_parses_table ==
    [unique_index |-> FALSE, next_id |-> 1, rows |-> {}]

\* TestAnnouncementProcessor._create_mock_database: the same table with
\* CREATE UNIQUE INDEX idx_parse on the three columns
create_mock_database ==
    [unique_index |-> TRUE, next_id |-> 1, rows |-> {}]

\* INSERT OR REPLACE INTO announcement_parses without an id: a new row with
\* the next id; SQLite first deletes the rows that conflict with it on a
\* UNIQUE index, if the table has one
save_parse_result(db, pdf_filename, parse_result) ==
    LET kept == IF db.unique_index
                THEN {row \in db.rows : row.pdf_filename # pdf_filename}
                ELSE db.rows
    IN  [db EXCEPT
           !.rows = kept \cup {[id |-> db.next_id,
                                pdf_filename |-> pdf_filename,
                                parse_result |-> parse_result]},
           !.next_id = db.next_id + 1]

\* process_pdf(ticker, pdf_path) on a file pdf, described by what its steps
\* meet: whether the text is extracted, whether the LLM's answer carries an
\* error, whether it is a limit announcement, whether the file name starts
\* with a date, whether the database accepts the row.  Gives the result,
\* whether parse_announcement was called, and the table afterwards.
process_pdf(pdf, db) ==
    LET r0 == NewResult
        parse_result == IF pdf.llm_error THEN "error" ELSE "parsed"
        r2 == IF pdf.llm_error
              THEN [r0 EXCEPT !.extracted = TRUE,
                              !.error = "LLM parsing failed",
                              !.parse_result = parse_result]
              ELSE [r0 EXCEPT !.extracted = TRUE, !.parsed = TRUE,
                              !.parse_result = parse_result,
                              !.is_limit_announcement = pdf.is_limit]
    IN  IF ~pdf.extract_ok
        THEN [result |-> [r0 EXCEPT !.error = "Text extraction failed"],
              llm_called |-> FALSE, db |-> db]
        ELSE IF ~pdf.date_ok
        THEN [result |-> [r2 EXCEPT
                            !.error = "Failed to parse date from filename"],
              llm_called |-> TRUE, db |-> db]
        ELSE IF ~pdf.db_ok
        THEN [result |-> [r2 EXCEPT !.error = "Database storage failed"],
              llm_called |-> TRUE, db |-> db]
        ELSE [result |-> [r2 EXCEPT !.stored = TRUE, !.success = TRUE],
              llm_called |-> TRUE,
              db |-> save_parse_result(db, pdf.name, r2.parse_result)]

-----------------------------------------------------------------------------
(* BacktestEngine (src/src/engine/backtest.py) *)

\* _execute_sell keeping the position when the close is below the nav
execute_sell_holding(a, t, row, current_date, cfg) ==
    LET shares_to_sell == get_available_shares(a, t)
        r == sell(a, t, shares_to_sell, row.close, cfg.commission_rate)
        trade == [date |-> current_date, action |-> "sell", ticker |-> t,
                  shares |-> shares_to_sell, price |-> row.close,
                  amount |-> TimesPrice(shares_to_sell, row.close),
                  fee |-> Percent(TimesPrice(shares_to_sell, row.close),
                                  cfg.commission_rate),
                  net_amount |-> r.ret]
    IN  IF shares_to_sell <= 0 \/ row.premium_rate < 0
        THEN [account |-> a, raised |-> "none", trades |-> <<>>,
              call |-> NoCall]
        ELSE [account |-> r.account, raised |-> r.raised, trades |-> <<trade>>,
              call |-> [op |-> "sell", ticker |-> t, qty |-> shares_to_sell]]

\* _execute_sell with the signal amount float('inf'): the account after the
\* call, what Account.sell raised, and the trade records to append
execute_sell(a, t, row, current_date, cfg) ==
    LET available_shares == get_available_shares(a, t)
        shares_to_sell   == available_shares
        price            == row.close
        r                == sell(a, t, shares_to_sell, price, cfg.commission_rate)
        commission       == Percent(TimesPrice(shares_to_sell, price),
                                    cfg.commission_rate)
        trade == [date |-> current_date, action |-> "sell", ticker |-> t,
                  shares |-> shares_to_sell, price |-> price,
                  amount |-> TimesPrice(shares_to_sell, price),
                  fee |-> commission, net_amount |-> r.ret]
        c == [op |-> "sell", ticker |-> t, qty |-> shares_to_sell]
    IN  IF available_shares <= 0 \/ shares_to_sell <= 0
        THEN [account |-> a, raised |-> "none", trades |-> <<>>,
              call |-> NoCall]
        ELSE IF r.raised # "none"
        THEN [account |-> r.account, raised |-> r.raised, trades |-> <<>>,
              call |-> c]
        ELSE [account |-> r.account, raised |-> "none", trades |-> <<trade>>,
              call |-> c]

\* the purchase cap without the final min with the cash
CappedAmount_nocash(a, row, cfg) ==
    LET effective_volume == IF cfg.use_ma5_liquidity
                            THEN Min(row.volume, row.ma5_volume)
                            ELSE row.volume
        liquid_cap == TimesPrice(Percent(effective_volume, cfg.liquidity_ratio),
                                 row.close)
        cash_cap   == IF cfg.risk_mode = "fixed" THEN a.cash ELSE Inf
        max_amount == Min(Min(row.daily_limit, liquid_cap), cash_cap)
    IN  IF max_amount <= 0 \/ a.cash <= 0 THEN 0 ELSE max_amount

\* the purchase cap of _execute_buy before the fee is known
CappedAmount(a, row, cfg) ==
    LET limit_cap        == row.daily_limit
        effective_volume == IF cfg.use_ma5_liquidity
                            THEN Min(row.volume, row.ma5_volume)
                            ELSE row.volume
        liquid_cap == TimesPrice(Percent(effective_volume, cfg.liquidity_ratio),
                                 row.close)
        cash_cap   == IF cfg.risk_mode = "fixed" THEN a.cash ELSE Inf
        signal_cap == Inf
        max_amount == Min(Min(limit_cap, liquid_cap), Min(cash_cap, signal_cap))
    IN  IF max_amount <= 0 \/ a.cash <= 0 THEN 0 ELSE Min(max_amount, a.cash)

\* _execute_buy without the test of the amount against the fee
execute_buy_nofeetest(a, t, row, df_attrs, days, current_date, cfg) ==
    LET max_amount == CappedAmount(a, row, cfg)
        fee        == calculate_subscription_fee(max_amount, df_attrs)
        r          == buy(a, t, max_amount, row.nav, fee, days)
        trade == [date |-> current_date, action |-> "buy", ticker |-> t,
                  shares |-> r.ret, price |-> row.nav, amount |-> max_amount,
                  fee |-> fee, net_amount |-> max_amount - fee]
    IN  IF max_amount <= 0
        THEN [account |-> a, raised |-> "none", trades |-> <<>>,
              call |-> NoCall]
        ELSE [account |-> r.account, raised |-> r.raised,
              trades |-> IF r.raised = "none" THEN <<trade>> ELSE <<>>,
              call |-> [op |-> "buy", ticker |-> t, qty |-> max_amount]]

\* _execute_buy with the signal amount float('inf')
execute_buy(a, t, row, df_attrs, days, current_date, cfg) ==
    LET max_amount == CappedAmount(a, row, cfg)
        fee        == calculate_subscription_fee(max_amount, df_attrs)
        nav        == row.nav
        r          == buy(a, t, max_amount, nav, fee, days)
        trade == [date |-> current_date, action |-> "buy", ticker |-> t,
                  shares |-> r.ret, price |-> nav, amount |-> max_amount,
                  fee |-> fee, net_amount |-> max_amount - fee]
        c == [op |-> "buy", ticker |-> t, qty |-> max_amount]
    IN  IF max_amount <= 0 \/ max_amount <= fee
        THEN [account |-> a, raised |-> "none", trades |-> <<>>,
              call |-> NoCall]
        ELSE IF r.raised # "none"
        THEN [account |-> r.account, raised |-> r.raised, trades |-> <<>>,
              call |-> c]
        ELSE [account |-> r.account, raised |-> "none", trades |-> <<trade>>,
              call |-> c]

\* the filter without the threshold
IsCandidate_nothreshold(row, cfg) ==
    row.daily_limit > 0

\* the filter with the threshold itself let through
IsCandidate_atthreshold(row, cfg) ==
    row.premium_rate >= cfg.buy_threshold /\ row.daily_limit > 0

\* the filter of the buy phase
IsCandidate(row, cfg) ==
    row.premium_rate > cfg.buy_threshold /\ row.daily_limit > 0

RECURSIVE Collect(_, _, _)
\* the candidates among the tickers of list l, in the order of l
Collect(l, rs, cfg) ==
    IF l = <<>> THEN <<>>
    ELSE (IF IsCandidate(rs[Head(l)], cfg)
          THEN <<[ticker |-> Head(l),
                  premium_rate |-> rs[Head(l)].premium_rate]>>
          ELSE <<>>) \o Collect(Tail(l), rs, cfg)

\* where list.sort(key=premium_rate, reverse=True) puts c among the sorted
\* candidates that came before it: after every one that is not below it
InsertCandidate(sorted, c) ==
    LET k == Cardinality({i \in DOMAIN sorted :
                            sorted[i].premium_rate >= c.premium_rate})
    IN  SubSeq(sorted, 1, k) \o <<c>> \o SubSeq(sorted, k + 1, Len(sorted))

RECURSIVE SortAscending(_)
\* the sort without reverse=True
SortAscending(s) ==
    IF s = <<>> THEN <<>>
    ELSE LET rest == SortAscending(SubSeq(s, 1, Len(s) - 1))
             c    == s[Len(s)]
             k    == Cardinality({i \in DOMAIN rest :
                                    rest[i].premium_rate <= c.premium_rate})
         IN  SubSeq(rest, 1, k) \o <<c>> \o SubSeq(rest, k + 1, Len(rest))

RECURSIVE SortByPremium(_)
\* buy_candidates.sort(key=lambda x: x['premium_rate'], reverse=True): stable
SortByPremium(s) ==
    IF s = <<>> THEN <<>>
    ELSE InsertCandidate(SortByPremium(SubSeq(s, 1, Len(s) - 1)), s[Len(s)])

\* prices: the close of every requested ticker
Prices(l, rs) == [t \in Range(l) |-> rs[t].close]

MakeSnapshot(a, date, prices) ==
    [date |-> date, total_assets |-> get_total_value(a, prices),
     cash |-> a.cash, positions_value |-> get_positions_value(a, prices)]

-----------------------------------------------------------------------------
(* SimpleLOFStrategy (src/src/strategy/simple_lof.py) *)

\* Signal(action=..., ticker=..., amount=float('inf'))
Signal(action, ticker) == [action |-> action, ticker |-> ticker, amount |-> Inf]

\* generate_signals that holds the shares while the premium is above the
\* threshold
generate_signals_holding(row, positions, cfg) ==
    LET ticker == row.ticker
        current_shares == IF ticker \in DOMAIN positions
                          THEN positions[ticker] ELSE 0
    IN  (IF current_shares > 0 /\ row.premium_rate <= cfg.buy_threshold
         THEN <<Signal("sell", ticker)>> ELSE <<>>)
        \o (IF row.premium_rate > cfg.buy_threshold /\ row.daily_limit > 0
            THEN <<Signal("buy", ticker)>> ELSE <<>>)

\* generate_signals(row, positions, config): the sell signal first, then
\* the buy signal
generate_signals(row, positions, cfg) ==
    LET ticker == row.ticker
        current_shares == IF ticker \in DOMAIN positions
                          THEN positions[ticker] ELSE 0
    IN  (IF current_shares > 0
         THEN <<Signal("sell", ticker)>> ELSE <<>>)
        \o (IF row.premium_rate > cfg.buy_threshold /\ row.daily_limit > 0
            THEN <<Signal("buy", ticker)>> ELSE <<>>)

-----------------------------------------------------------------------------
(* Inputs *)

\* the length of the trading calendar
MaxDays == 3

\* the distance in calendar days between consecutive trading days: the next
\* day, or the day after a break of three days
Gaps == {1, 4}

RECURSIVE CalendarsOfLen(_)
CalendarsOfLen(n) ==
    IF n = 1 THEN {<<1>>}
    ELSE {Append(c, c[Len(c)] + g) : c \in CalendarsOfLen(n - 1), g \in Gaps}

Calendars == CalendarsOfLen(MaxDays)

\* run(tickers): one ticker, two tickers, one ticker named twice
TickerLists == {<<"A">>, <<"A", "B">>, <<"A", "A">>}

\* the bundle load_bundle(ticker) finds: the dates of its rows, or no file
Bundle(ds) == [exists |-> TRUE, dates |-> ds]
NoBundle == [exists |-> FALSE, dates |-> {}]

\* the data directories of a run of the tickers of l: every requested ticker
\* with a row on every day of a calendar; or that with one ticker's files
\* absent, or without rows, or with rows on other dates only, or (for two
\* tickers) with a row on the first day only
Stores(l) ==
    LET full(c) == [t \in Range(l) |-> Bundle(Range(c))]
        last(c) == c[Len(c)]
    IN  UNION {
          {full(c)}
            \cup {[full(c) EXCEPT ![u] = NoBundle] : u \in Range(l)}
            \cup {[full(c) EXCEPT ![u] = Bundle({})] : u \in Range(l)}
            \cup {[full(c) EXCEPT ![u] = Bundle({d + last(c) : d \in Range(c)})] :
                    u \in Range(l)}
            \cup {[full(c) EXCEPT ![u] = Bundle({c[1]})] :
                    u \in {t \in Range(l) : Cardinality(Range(l)) > 1}}
          : c \in Calendars}

RECURSIVE SortedSeq(_)
\* sorted(S) for a set of dates
SortedSeq(S) ==
    IF S = {} THEN <<>>
    ELSE LET m == CHOOSE x \in S : \A y \in S : x <= y
         IN  <<m>> \o SortedSeq(S \ {m})

\* the dates on which any requested ticker has a row, not every one
AlignedDates_union(l, st) ==
    SortedSeq(UNION {st[t].dates : t \in Range(l)})

\* _load_multi_data: the sorted intersection of the dates of the bundles
AlignedDates(l, st) ==
    SortedSeq({d \in UNION {st[t].dates : t \in Range(l)} :
                 \A t \in Range(l) : d \in st[t].dates})

\* load_bundle raises FileNotFoundError for some requested ticker
BundleMissing(l, st) == \E t \in Range(l) : ~st[t].exists

-----------------------------------------------------------------------------
(* The run of BacktestEngine.run, one step per loop iteration *)

\* The Account of the run (created once the data is loaded) is there from
\* the start; trading_days is empty until the data is loaded.
Init ==
    /\ config \in Configs
    /\ ticker_list \in TickerLists
    /\ store \in Stores(ticker_list)
    /\ cfg_args = <<>>
    /\ dd_call = <<>>
    /\ limits = <<>>
    /\ proc = <<>>
    /\ trading_days = <<>>
    /\ account = NewAccount(config.initial_cash)
    /\ raised = "none"
    /\ call = NoCall
    /\ settle_log = {}
    /\ day = 0
    /\ pc = "load"
    /\ idx = 0
    /\ rows = <<>>
    /\ vol_hist = [t \in Range(ticker_list) |-> <<>>]
    /\ buy_candidates = <<>>
    /\ trade_records = <<>>
    /\ daily_records = <<>>
    /\ fee_call = <<>>

\* _load_multi_data and the test for no data: the exception of load_bundle
\* escapes run, no data returns the empty result, else the loop starts
Load ==
    /\ pc = "load"
    /\ IF BundleMissing(ticker_list, store)
       THEN /\ raised' = "FileNotFoundError"
            /\ pc' = "crashed"
            /\ trading_days' = trading_days
       ELSE IF ticker_list = <<>>
               \/ Len(AlignedDates(ticker_list, store)) = 0
       THEN /\ raised' = "none"
            /\ pc' = "empty"
            /\ trading_days' = trading_days
       ELSE /\ raised' = "none"
            /\ pc' = "settle"
            /\ trading_days' = AlignedDates(ticker_list, store)
    /\ UNCHANGED <<account, call, settle_log, config, ticker_list, day, idx,
                   rows, vol_hist, buy_candidates, trade_records,
                   daily_records, fee_call>>
    /\ UNCHANGED aux_vars

\* the loop takes the next timestamp; Step 1: account.update_date.  The
\* rows of the day come from the bars day_bars[t][d] that ticker t can have
\* on the d-th trading day
SettleFrom(day_bars) ==
    /\ pc = "settle"
    /\ day < Len(trading_days)
    /\ \E bars \in [Range(ticker_list) ->
                      UNION {day_bars[t][day + 1] : t \in Tickers}] :
         /\ \A t \in Range(ticker_list) : bars[t] \in day_bars[t][day + 1]
         /\ rows' = [t \in Range(ticker_list) |->
                       MakeRow(bars[t], vol_hist[t], config)]
         /\ vol_hist' = [t \in Range(ticker_list) |->
                           LastN(Append(vol_hist[t], bars[t].volume), 4)]
    /\ day' = day + 1
    /\ account' = update_date(account, trading_days[day + 1])
    /\ settle_log' = settle_log \cup
                       Settlements(account, trading_days[day + 1], trading_days)
    /\ pc' = "sell"
    /\ idx' = 1
    /\ raised' = "none"
    /\ call' = NoCall
    /\ UNCHANGED <<config, ticker_list, trading_days, buy_candidates,
                   trade_records, daily_records, fee_call>>
    /\ UNCHANGED aux_vars

\* any bar of the ticker on any day
AnyBar == [t \in Tickers |-> [d \in DOMAIN trading_days |-> Bars(t)]]

Settle == SettleFrom(AnyBar)

\* Step 2: one iteration of the sell loop
SellStep ==
    /\ pc = "sell"
    /\ idx <= Len(ticker_list)
    /\ LET t == ticker_list[idx]
           r == execute_sell(account, t, rows[t], trading_days[day], config)
       IN  /\ account' = r.account
           /\ raised' = r.raised
           /\ call' = r.call
           /\ trade_records' = trade_records \o r.trades
           /\ pc' = IF r.raised = "none" THEN "sell" ELSE "crashed"
    /\ idx' = idx + 1
    /\ UNCHANGED <<settle_log, config, ticker_list, trading_days, day, rows,
                   vol_hist, buy_candidates, daily_records, fee_call>>
    /\ UNCHANGED aux_vars

\* Step 3, first half: collect the candidates and sort them
CollectCandidates ==
    /\ pc = "sell"
    /\ idx > Len(ticker_list)
    /\ buy_candidates' = SortByPremium(Collect(ticker_list, rows, config))
    /\ pc' = "buy"
    /\ idx' = 1
    /\ call' = NoCall
    /\ UNCHANGED <<account, raised, settle_log, config, ticker_list,
                   trading_days, day, rows, vol_hist, trade_records,
                   daily_records, fee_call>>
    /\ UNCHANGED aux_vars

\* Step 3, second half: one iteration of the greedy buy loop
BuyStep ==
    /\ pc = "buy"
    /\ idx <= Len(buy_candidates)
    /\ ~(account.cash <= 0)
    /\ LET t == buy_candidates[idx].ticker
           r == execute_buy(account, t, rows[t], FeeAttrs(t), trading_days,
                            trading_days[day], config)
       IN  /\ account' = r.account
           /\ raised' = r.raised
           /\ call' = r.call
           /\ trade_records' = trade_records \o r.trades
           /\ pc' = IF r.raised = "none" THEN "buy" ELSE "crashed"
    /\ idx' = idx + 1
    /\ UNCHANGED <<settle_log, config, ticker_list, trading_days, day, rows,
                   vol_hist, buy_candidates, daily_records, fee_call>>
    /\ UNCHANGED aux_vars

\* the buy loop ends (exhausted, or the break on cash <= 0); Step 4: the
\* daily record
Snapshot ==
    /\ pc = "buy"
    /\ idx > Len(buy_candidates) \/ account.cash <= 0
    /\ daily_records' = Append(daily_records,
           MakeSnapshot(account, trading_days[day], Prices(ticker_list, rows)))
    /\ pc' = IF day < Len(trading_days) THEN "settle" ELSE "done"
    /\ call' = NoCall
    /\ UNCHANGED <<account, raised, settle_log, config, ticker_list,
                   trading_days, day, idx, rows, vol_hist, buy_candidates,
                   trade_records, fee_call>>
    /\ UNCHANGED aux_vars

Next ==
    Load \/ Settle \/ SellStep \/ CollectCandidates \/ BuyStep \/ Snapshot

Spec == Init /\ [][Next]_vars

-----------------------------------------------------------------------------
(* The Account on its own: any sequence of update_date, buy and sell calls *)

\* the longest pending queue the calls build
MaxPending == 2

InitAccount ==
    /\ config = MakeConfig(30, 100, 0, "fixed", FALSE)
    /\ ticker_list = <<>>
    /\ trading_days \in Calendars
    /\ account = NewAccount(config.initial_cash)
    /\ raised = "none"
    /\ call = NoCall
    /\ settle_log = {}
    /\ day = 0
    /\ pc = "api"
    /\ idx = 0
    /\ rows = <<>>
    /\ vol_hist = <<>>
    /\ buy_candidates = <<>>
    /\ trade_records = <<>>
    /\ daily_records = <<>>
    /\ fee_call = <<>>
    /\ store = <<>>
    /\ cfg_args = <<>>
    /\ dd_call = <<>>
    /\ limits = <<>>
    /\ proc = <<>>

\* account.update_date(d): a trading day or the day the last fallback
\* settles, dates in non-decreasing order
ApiUpdateDate ==
    /\ pc = "api"
    /\ \E d \in Range(trading_days)
                 \cup {trading_days[Len(trading_days)] + BeyondCalendarOffset} :
         /\ d >= account.current_date
         /\ account' = update_date(account, d)
         /\ settle_log' = settle_log \cup Settlements(account, d, trading_days)
    /\ raised' = "none"
    /\ call' = [op |-> "update_date", ticker |-> "", qty |-> 0]
    /\ UNCHANGED <<trading_days, fee_call>>
    /\ UNCHANGED engine_vars
    /\ UNCHANGED aux_vars

\* account.buy(t, amount, nav, fee, trading_days); amount includes the fee
ApiBuy ==
    /\ pc = "api"
    /\ Len(account.pending) < MaxPending
    /\ \E t \in Tickers, amount \in {10, 25}, nav \in {100}, fee \in {1} :
         /\ LET r == buy(account, t, amount, nav, fee, trading_days)
            IN  /\ account' = r.account
                /\ raised' = r.raised
         /\ call' = [op |-> "buy", ticker |-> t, qty |-> amount]
    /\ UNCHANGED <<settle_log, trading_days, fee_call>>
    /\ UNCHANGED engine_vars
    /\ UNCHANGED aux_vars

\* account.sell(t, shares, price, commission_rate): the shares of one small
\* purchase, the settled shares, or the settled and the pending together
ApiSell ==
    /\ pc = "api"
    /\ \E t \in Tickers, price \in {100}, rate \in {10} :
       \E shares \in {9, get_available_shares(account, t),
                      get_total_shares(account, t)} :
         /\ LET r == sell(account, t, shares, price, rate)
            IN  /\ account' = r.account
                /\ raised' = r.raised
         /\ call' = [op |-> "sell", ticker |-> t, qty |-> shares]
    /\ UNCHANGED <<settle_log, trading_days, fee_call>>
    /\ UNCHANGED engine_vars
    /\ UNCHANGED aux_vars

NextAccount == ApiUpdateDate \/ ApiBuy \/ ApiSell

AccountSpec == InitAccount /\ [][NextAccount]_vars

-----------------------------------------------------------------------------
(* calculate_subscription_fee on its own *)

\* the amounts, in whole yuan, the default schedule is applied to: the tier
\* boundaries, their neighbours, and every 100,000 yuan up to FeeSteps
FeeSteps == 30

FeeYuan ==
    {0, 1, 499999, 500000, 500001, 1999999, 2000000, 2000001}
        \cup {100000 * k : k \in 1..FeeSteps}

\* the calls: the default schedule on whole yuan and on the half fen below,
\* the schedules of the funds on small amounts
FeeInputs ==
    {<<Yuan(y), DEFAULT_FEES>> : y \in FeeYuan}
        \cup {<<Yuan(y) - 1, DEFAULT_FEES>> : y \in FeeYuan \ {0}}
        \cup {<<m, FeeAttrs(t)>> : m \in 0..45, t \in Tickers}

InitFee ==
    /\ config = MakeConfig(30, 100, 0, "fixed", FALSE)
    /\ ticker_list = <<>>
    /\ trading_days = <<1>>
    /\ account = NewAccount(config.initial_cash)
    /\ raised = "none"
    /\ call = NoCall
    /\ settle_log = {}
    /\ day = 0
    /\ pc = "fee"
    /\ idx = 0
    /\ rows = <<>>
    /\ vol_hist = <<>>
    /\ buy_candidates = <<>>
    /\ trade_records = <<>>
    /\ daily_records = <<>>
    /\ fee_call = <<>>
    /\ store = <<>>
    /\ cfg_args = <<>>
    /\ dd_call = <<>>
    /\ limits = <<>>
    /\ proc = <<>>

FeeCall ==
    /\ pc = "fee"
    /\ \E in \in FeeInputs :
         fee_call' = [amount |-> in[1], attrs |-> in[2],
                      fee |-> calculate_subscription_fee(in[1], in[2])]
    /\ UNCHANGED <<account, raised, call, settle_log, trading_days>>
    /\ UNCHANGED engine_vars
    /\ UNCHANGED aux_vars

NextFee == FeeCall

FeeSpec == InitFee /\ [][NextFee]_vars

-----------------------------------------------------------------------------
(* The end-to-end scenario: one fund, five trading days, starting cash
   100,000, premium rates 0.03, -0.01, 0.05, 0.01, -0.02 over the threshold
   0.02, no subscription limit, liquidity unbounded *)

\* the premium rate of each day of the scenario, in percent
ScenarioPremiums == <<3, -1, 5, 1, -2>>

\* the bar of the d-th day: nav 1.00, the close that gives the premium, a
\* volume that never binds, no daily limit
ScenarioBars ==
    [t \in Tickers |-> [d \in DOMAIN ScenarioPremiums |->
       {[close |-> 100 + ScenarioPremiums[d], nav |-> 100,
         volume |-> 1000000, daily_limit |-> Inf]}]]

\* what the scenario leaves open: commission 0 or 1%, either capital mode,
\* with or without the 5-day liquidity floor
ScenarioConfigs ==
    {c \in {MakeConfig(100000, 100, comm, mode, ma5) :
              comm \in {0, 1}, mode \in {"fixed", "infinite"},
              ma5 \in BOOLEAN} : post_init_ok(c)}

InitScenario ==
    /\ config \in ScenarioConfigs
    /\ ticker_list = <<"A">>
    /\ \E c \in CalendarsOfLen(Len(ScenarioPremiums)) :
         store = [t \in Range(ticker_list) |-> Bundle(Range(c))]
    /\ cfg_args = <<>>
    /\ dd_call = <<>>
    /\ limits = <<>>
    /\ proc = <<>>
    /\ trading_days = <<>>
    /\ account = NewAccount(config.initial_cash)
    /\ raised = "none"
    /\ call = NoCall
    /\ settle_log = {}
    /\ day = 0
    /\ pc = "load"
    /\ idx = 0
    /\ rows = <<>>
    /\ vol_hist = [t \in Range(ticker_list) |-> <<>>]
    /\ buy_candidates = <<>>
    /\ trade_records = <<>>
    /\ daily_records = <<>>
    /\ fee_call = <<>>

ScenarioSettle == SettleFrom(ScenarioBars)

NextScenario ==
    Load \/ ScenarioSettle \/ SellStep \/ CollectCandidates \/ BuyStep
      \/ Snapshot

ScenarioSpec == InitScenario /\ [][NextScenario]_vars

-----------------------------------------------------------------------------
(* BacktestConfig(...) on its own *)

\* the arguments of the constructor calls: every field below, on and above
\* the bounds __post_init__ tests (rates in percent)
ConfigArgs ==
    [initial_cash : {-1, 0, 1, 40},
     liquidity_ratio : {-1, 0, 50, 100, 101},
     buy_threshold : {-5, DefaultBuyThreshold},
     commission_rate : {-1, 0, 10, 150},
     risk_mode : {"fixed", "infinite", "other"},
     use_ma5_liquidity : {TRUE},
     risk_free_rate : {-1, 0, DefaultRiskFreeRate}]

InitConfig ==
    /\ config = <<>>
    /\ cfg_args = <<>>
    /\ dd_call = <<>>
    /\ limits = <<>>
    /\ proc = <<>>
    /\ ticker_list = <<>>
    /\ trading_days = <<1>>
    /\ account = NewAccount(1)
    /\ raised = "none"
    /\ call = NoCall
    /\ settle_log = {}
    /\ day = 0
    /\ pc = "config"
    /\ idx = 0
    /\ rows = <<>>
    /\ vol_hist = <<>>
    /\ buy_candidates = <<>>
    /\ trade_records = <<>>
    /\ daily_records = <<>>
    /\ fee_call = <<>>
    /\ store = <<>>

\* BacktestConfig(**args): the object, or the ValueError of __post_init__
Construct ==
    /\ pc = "config"
    /\ \E args \in ConfigArgs :
         /\ cfg_args' = args
         /\ config' = IF post_init_ok(args) THEN args ELSE <<>>
         /\ raised' = IF post_init_ok(args) THEN "none" ELSE "ValueError"
    /\ UNCHANGED <<account, call, settle_log, ticker_list, trading_days, day,
                   pc, idx, rows, vol_hist, buy_candidates, trade_records,
                   daily_records, fee_call, store, dd_call, limits, proc>>

NextConfig == Construct

ConfigSpec == InitConfig /\ [][NextConfig]_vars

-----------------------------------------------------------------------------
(* max_drawdown on its own *)

\* the longest equity series
MaxSeries == 4

\* total_assets of the first snapshot (positive: the starting cash is) and
\* of the later ones (a commission above 100% can take the equity below 0)
FirstEquity == {30, 40, 50}
LaterEquity == {-20, 0, 30, 40, 50}

InitDrawdown ==
    /\ config = MakeConfig(30, 100, 0, "fixed", FALSE)
    /\ cfg_args = <<>>
    /\ dd_call = [total_assets |-> <<>>, max_drawdown |-> max_drawdown(<<>>)]
    /\ limits = <<>>
    /\ proc = <<>>
    /\ store = <<>>
    /\ ticker_list = <<>>
    /\ trading_days = <<1>>
    /\ account = NewAccount(config.initial_cash)
    /\ raised = "none"
    /\ call = NoCall
    /\ settle_log = {}
    /\ day = 0
    /\ pc = "drawdown"
    /\ idx = 0
    /\ rows = <<>>
    /\ vol_hist = <<>>
    /\ buy_candidates = <<>>
    /\ trade_records = <<>>
    /\ daily_records = <<>>
    /\ fee_call = <<>>

\* the result of a run one day longer: BacktestResult(daily_perf).max_drawdown
ExtendSeries ==
    /\ pc = "drawdown"
    /\ Len(dd_call.total_assets) < MaxSeries
    /\ \E v \in IF dd_call.total_assets = <<>> THEN FirstEquity
                  ELSE LaterEquity :
         LET series == Append(dd_call.total_assets, v)
         IN  dd_call' = [total_assets |-> series,
                         max_drawdown |-> max_drawdown(series)]
    /\ UNCHANGED <<account, raised, call, settle_log, trading_days, fee_call,
                   store, cfg_args, limits, proc>>
    /\ UNCHANGED engine_vars

NextDrawdown == ExtendSeries

DrawdownSpec == InitDrawdown /\ [][NextDrawdown]_vars

-----------------------------------------------------------------------------
(* _resample_limits_to_daily on its own *)

\* the most rows the table limit_events gets
MaxEvents == 2

\* the dates of the bundle's rows
DateIndex == <<1, 2, 3, 5, 6>>

\* the rows that can be stored: a period that starts on a date of the
\* bundle or between two of them, open-ended or ending before, on or after
\* its start
LimitEvents ==
    [ticker : Tickers, start_date : {2, 4}, end_date : {NaT, 1, 2, 5, 6},
     max_amount : {10, 15}]

\* load_bundle(t) for every ticker t over the stored rows
DailyLimits(db) ==
    [t \in Tickers |-> resample_limits_to_daily(t, DateIndex, db)]

InitLimits ==
    /\ config = MakeConfig(30, 100, 0, "fixed", FALSE)
    /\ cfg_args = <<>>
    /\ dd_call = <<>>
    /\ limits = [db |-> <<>>, daily_limit |-> DailyLimits(<<>>)]
    /\ proc = <<>>
    /\ store = <<>>
    /\ ticker_list = <<>>
    /\ trading_days = <<1>>
    /\ account = NewAccount(config.initial_cash)
    /\ raised = "none"
    /\ call = NoCall
    /\ settle_log = {}
    /\ day = 0
    /\ pc = "limits"
    /\ idx = 0
    /\ rows = <<>>
    /\ vol_hist = <<>>
    /\ buy_candidates = <<>>
    /\ trade_records = <<>>
    /\ daily_records = <<>>
    /\ fee_call = <<>>

\* a row is stored after the others, and the bundles are loaded again
StoreEvent ==
    /\ pc = "limits"
    /\ Len(limits.db) < MaxEvents
    /\ \E ev \in LimitEvents :
         LET db == Append(limits.db, ev)
         IN  limits' = [db |-> db, daily_limit |-> DailyLimits(db)]
    /\ UNCHANGED <<account, raised, call, settle_log, trading_days, fee_call,
                   store, cfg_args, dd_call, proc>>
    /\ UNCHANGED engine_vars

NextLimits == StoreEvent

LimitSpec == InitLimits /\ [][NextLimits]_vars

-----------------------------------------------------------------------------
(* AnnouncementProcessor.process_pdf on its own *)

\* the most calls of process_pdf on one processor
MaxCalls == 2

\* the files: two files (name stands for the file, date_ok for its name
\* starting with a date), every outcome of every step
Pdfs ==
    [name : {"a.pdf", "b.pdf"}, extract_ok : BOOLEAN,
     llm_error : BOOLEAN, is_limit : BOOLEAN, date_ok : BOOLEAN,
     db_ok : BOOLEAN]

InitProcessor ==
    /\ config = MakeConfig(30, 100, 0, "fixed", FALSE)
    /\ cfg_args = <<>>
    /\ dd_call = <<>>
    /\ limits = <<>>
    /\ \E db \in {create_announcement_parses_table, create_mock_database} :
         proc = [calls |-> 0, pdf |-> <<>>, result |-> <<>>,
                 llm_called |-> FALSE, db_before |-> db, db |-> db]
    /\ store = <<>>
    /\ ticker_list = <<>>
    /\ trading_days = <<1>>
    /\ account = NewAccount(config.initial_cash)
    /\ raised = "none"
    /\ call = NoCall
    /\ settle_log = {}
    /\ day = 0
    /\ pc = "processor"
    /\ idx = 0
    /\ rows = <<>>
    /\ vol_hist = <<>>
    /\ buy_candidates = <<>>
    /\ trade_records = <<>>
    /\ daily_records = <<>>
    /\ fee_call = <<>>

\* processor.process_pdf(ticker, pdf_path)
ProcessPdf ==
    /\ pc = "processor"
    /\ proc.calls < MaxCalls
    /\ \E pdf \in Pdfs :
         LET r == process_pdf(pdf, proc.db)
         IN  proc' = [calls |-> proc.calls + 1, pdf |-> pdf,
                      result |-> r.result, llm_called |-> r.llm_called,
                      db_before |-> proc.db, db |-> r.db]
    /\ UNCHANGED <<account, raised, call, settle_log, trading_days, fee_call,
                   store, cfg_args, dd_call, limits>>
    /\ UNCHANGED engine_vars

NextProcessor == ProcessPdf

ProcessorSpec == InitProcessor /\ [][NextProcessor]_vars

-----------------------------------------------------------------------------
(* Properties of the Account (AccountSpec) *)

\* C1: for every instrument the total claim (settled shares plus pending
\* shares) is left unchanged by update_date, and a step that decreases it is
\* a successful sell of that instrument.
C1_TotalClaim ==
    [][\A t \in Tickers :
         /\ call'.op = "update_date" =>
              get_total_shares(account', t) = get_total_shares(account, t)
         /\ get_total_shares(account', t) < get_total_shares(account, t) =>
              call'.op = "sell" /\ call'.ticker = t /\ raised' = "none"]_vars

\* an update_date has just matured a purchase into a settled position
C1_Witness ==
    /\ call.op = "update_date"
    /\ \E t \in Tickers : get_available_shares(account, t) > 0
    /\ \E s \in settle_log : s.date = account.current_date

\* C3: a purchase made on the trading day at index i, with the day at index
\* i+2 in the calendar, is pending as long as the date of day i+2 is not
\* reached and is settled by the update_date that reaches it: it is never
\* pending at or after that date and never matures before it.
C3_SettlesAtT2 ==
    /\ \A k \in DOMAIN account.pending :
         LET p == account.pending[k]
         IN  (p.bought_idx > 0 /\ p.bought_idx + 2 <= Len(trading_days)) =>
               /\ p.settle_date = trading_days[p.bought_idx + 2]
               /\ account.current_date < trading_days[p.bought_idx + 2]
    /\ \A s \in settle_log :
         (s.bought_idx > 0 /\ s.bought_idx + 2 <= Len(trading_days)) =>
           s.date >= trading_days[s.bought_idx + 2]

\* a purchase of the first trading day has matured at the update_date of the
\* third, with a calendar whose days are not consecutive
C3_Witness ==
    /\ call.op = "update_date"
    /\ trading_days[2] > trading_days[1] + 1
    /\ \E s \in settle_log : s.bought_idx = 1 /\ s.settled_idx = 3
    /\ \A s \in settle_log : s.bought_idx = 1 => s.settled_idx = 3

\* C10: a sell of more than the settled shares raises, a buy of more than
\* the cash raises, and either leaves cash, positions and the pending queue
\* as they were.
C10_RaisesUnchanged ==
    [][/\ (call'.op = "sell"
             /\ call'.qty > get_available_shares(account, call'.ticker)) =>
            raised' = "InsufficientShares" /\ account' = account
       /\ (call'.op = "buy" /\ call'.qty > account.cash) =>
            raised' = "InsufficientCash" /\ account' = account]_vars

\* a sell was refused although the settled and the pending shares together
\* cover it
C10_Witness ==
    /\ raised = "InsufficientShares"
    /\ call.qty > get_available_shares(account, call.ticker)
    /\ get_available_shares(account, call.ticker) > 0
    /\ call.qty <= get_total_shares(account, call.ticker)

-----------------------------------------------------------------------------
(* Properties of calculate_subscription_fee (FeeSpec) *)

\* f is amount * rate / 1000 rounded down to the grid
IsRateOf(f, amount, rate) ==
    LET q == amount \div 1000
        m == amount % 1000
    IN  /\ (f - q * rate) * 1000 <= m * rate
        /\ m * rate < (f - q * rate + 1) * 1000

\* C9: the fee is amount x rate1 below threshold1, amount x rate2 from
\* threshold1 up to but excluding threshold2, and the fixed fee from
\* threshold2 on; under the default schedule every whole-yuan amount gets
\* the exact product, fee(499999) = 7499.985, fee(500000) = 5000 and
\* fee(2000000) = 1000.
C9_FeeTiers ==
    fee_call # <<>> =>
      LET a == fee_call.amount
          s == fee_call.attrs
          f == fee_call.fee
      IN  /\ a < s.fee_limit_1 => IsRateOf(f, a, s.fee_rate_tier_1)
          /\ (s.fee_limit_1 <= a /\ a < s.fee_limit_2) =>
               IsRateOf(f, a, s.fee_rate_tier_2)
          /\ a >= s.fee_limit_2 => f = s.fee_fixed
          /\ (s = DEFAULT_FEES /\ a % 200 = 0 /\ a < Yuan(500000)) =>
               f = 3 * (a \div 200)
          /\ (s = DEFAULT_FEES /\ a % 200 = 0 /\ Yuan(500000) <= a
                /\ a < Yuan(2000000)) => f = 2 * (a \div 200)
          /\ (s = DEFAULT_FEES /\ a = Yuan(499999)) => f = 1499997
          /\ (s = DEFAULT_FEES /\ a = Yuan(500000)) => f = Yuan(5000)
          /\ (s = DEFAULT_FEES /\ a = Yuan(2000000)) => f = Yuan(1000)

\* the fee of exactly threshold1 under the default schedule was computed
C9_Witness ==
    /\ fee_call # <<>>
    /\ fee_call.attrs = DEFAULT_FEES
    /\ fee_call.amount = Yuan(500000)
    /\ fee_call.fee = Yuan(5000)

-----------------------------------------------------------------------------
(* Properties of the run (Spec) *)

\* the buy records of the day in progress, in the order of the trade log
TodaysBuys ==
    IF day = 0 THEN <<>>
    ELSE SelectSeq(trade_records,
                   LAMBDA r : r.date = trading_days[day] /\ r.action = "buy")

RECURSIVE SumAmounts(_)
SumAmounts(s) == IF s = <<>> THEN 0 ELSE Head(s).amount + SumAmounts(Tail(s))

\* the day's buy phase is over: the snapshot of the day is taken
DayDone == day > 0 /\ pc \in {"settle", "done"}

\* C2: the cash of the ledger is never negative in a run.
C2_CashNonNegative == account.cash >= 0

\* C4: no purchase matures on a trading day earlier than the second one
\* after the day of the purchase.
C4_NeverBeforeT2 ==
    \A s \in settle_log : s.settled_idx >= s.bought_idx + 2

\* what Account.buy and Account.sell can raise
LedgerErrors ==
    {"InsufficientShares", "InsufficientCash", "KeyError",
     "ZeroDivisionError", "DateNotSet"}

C6_SnapshotEquation ==
    /\ \A i \in DOMAIN daily_records :
         daily_records[i].total_assets =
           daily_records[i].cash + daily_records[i].positions_value
    /\ DayDone =>
         LET r == daily_records[Len(daily_records)]
         IN  /\ r.date = trading_days[day]
             /\ r.cash = account.cash
             /\ r.positions_value =
                  get_positions_value(account, Prices(ticker_list, rows))

\* a daily record with pending shares in its positions value
C6_Witness ==
    /\ DayDone
    /\ account.pending # <<>>
    /\ daily_records[Len(daily_records)].positions_value > 0
    /\ daily_records[Len(daily_records)].cash > 0

\* c1 is funded no later than c2: higher premium, or equal premium and not
\* later in the requested list
FundedBefore(t1, t2) ==
    \/ rows[t1].premium_rate > rows[t2].premium_rate
    \/ /\ rows[t1].premium_rate = rows[t2].premium_rate
       /\ IndexOf(ticker_list, t1) <= IndexOf(ticker_list, t2)

\* the cash at the start of the day's buy phase
BuyPhaseCash == account.cash + SumAmounts(TodaysBuys)

\* the case of the example: premiums 0.10 and 0.05 over the threshold 0.02,
\* both candidates, and the 0.10 candidate able to absorb all the cash
C7_Example ==
    /\ DayDone
    /\ ticker_list = <<"A", "B">>
    /\ config.buy_threshold = 2
    /\ rows["A"].premium_rate = 10 /\ IsCandidate(rows["A"], config)
    /\ rows["B"].premium_rate = 5 /\ IsCandidate(rows["B"], config)
    /\ BuyPhaseCash > 0
    /\ CappedAmount([account EXCEPT !.cash = BuyPhaseCash], rows["A"], config)
         = BuyPhaseCash
    /\ BuyPhaseCash > calculate_subscription_fee(BuyPhaseCash, FeeAttrs("A"))

\* C7: the day's candidates are walked, and the day's buys recorded, in
\* non-increasing premium order with ties in the order of the requested
\* list; in the example only the 0.10 candidate gets a buy trade.
C7_GreedyOrder ==
    /\ (day > 0 /\ pc \in {"buy", "settle", "done"}) =>
         \A i, j \in DOMAIN buy_candidates :
           i < j => FundedBefore(buy_candidates[i].ticker,
                                 buy_candidates[j].ticker)
    /\ \A i, j \in DOMAIN TodaysBuys :
         i < j => FundedBefore(TodaysBuys[i].ticker, TodaysBuys[j].ticker)
    /\ C7_Example =>
         Len(TodaysBuys) = 1 /\ TodaysBuys[1].ticker = "A"

\* the example happened: A at 0.10 took all the cash, B at 0.05 got nothing
C7_Witness ==
    /\ C7_Example
    /\ Len(TodaysBuys) = 1
    /\ TodaysBuys[1].ticker = "A"
    /\ account.cash = 0

\* C8: the gross amounts of a day's buys of an instrument sum to no more
\* than the instrument's daily limit of that day.
C8_DailyCap ==
    day > 0 =>
      \A t \in Range(ticker_list) :
        SumAmounts(SelectSeq(TodaysBuys, LAMBDA r : r.ticker = t))
          <= rows[t].daily_limit

\* the data of the run is unavailable: a requested bundle is missing, or
\* the bundles have no date in common
DataUnavailable ==
    \/ BundleMissing(ticker_list, store)
    \/ Len(AlignedDates(ticker_list, store)) = 0

\* C11: when a requested bundle is missing or there are no aligned trading
\* days, run does not raise: it returns the empty result (no daily record,
\* no trade), and the ledger is as it was created.
C11_EmptyResult ==
    (pc # "load" /\ DataUnavailable) =>
      /\ pc = "empty"
      /\ raised = "none"
      /\ daily_records = <<>>
      /\ trade_records = <<>>
      /\ account = NewAccount(config.initial_cash)

-----------------------------------------------------------------------------
(* Properties of BacktestConfig (ConfigSpec) *)

\* the arguments violate one of the documented bounds
ViolatesBounds(c) ==
    \/ c.initial_cash <= 0
    \/ c.liquidity_ratio < 0 \/ c.liquidity_ratio > 100
    \/ c.commission_rate < 0
    \/ c.risk_mode \notin {"fixed", "infinite"}
    \/ c.risk_free_rate < 0

\* C12: constructing a BacktestConfig fails if and only if initial_cash <= 0
\* or liquidity_ratio is outside [0,1] or commission_rate < 0 or risk_mode
\* is neither 'fixed' nor 'infinite' or risk_free_rate < 0; a failed
\* construction yields no configuration, a successful one the arguments.
C12_ConstructionFails ==
    cfg_args # <<>> =>
      /\ raised = "ValueError" <=> ViolatesBounds(cfg_args)
      /\ raised = "ValueError" => config = <<>>
      /\ raised # "ValueError" =>
            raised = "none" /\ config = cfg_args /\ ~ViolatesBounds(config)

\* a configuration on the bounds was constructed: liquidity ratio 1,
\* commission rate 0, risk-free rate 0
C12_Witness ==
    /\ cfg_args # <<>>
    /\ raised = "none"
    /\ config = cfg_args
    /\ config.liquidity_ratio = 100
    /\ config.commission_rate = 0
    /\ config.risk_free_rate = 0

\* the trade log is in date order, the sells of a date before its buys
TradeLogOrdered(log) ==
    \A i, j \in DOMAIN log :
      i < j =>
        /\ log[i].date <= log[j].date
        /\ (log[i].date = log[j].date /\ log[i].action = "buy")
             => log[j].action = "buy"

\* C19: the phases of a day run in the order settle, sell, buy, snapshot
\* and the days in increasing date order: update_date is called once per
\* day, with a later date than before and before any trade of the day;
\* every trade is recorded under the date of the day in progress, sells in
\* the sell phase and buys in the buy phase, before the day's snapshot; the
\* trade log is in date order with each date's sells before its buys; the
\* snapshot closes the day.
C19_PhaseOrder ==
    [][/\ <<pc, pc'>> \in
            {<<"load", "settle">>, <<"load", "empty">>, <<"load", "crashed">>,
             <<"settle", "sell">>, <<"sell", "sell">>, <<"sell", "buy">>,
             <<"buy", "buy">>, <<"buy", "settle">>, <<"buy", "done">>}
       /\ pc = "settle" <=> account'.current_date # account.current_date
       /\ pc = "settle" =>
            /\ day' = day + 1
            /\ account'.current_date = trading_days[day']
            /\ account'.current_date > account.current_date
            /\ trade_records' = trade_records
            /\ Len(daily_records) = day
       /\ trade_records' # trade_records =>
            /\ Len(trade_records') = Len(trade_records) + 1
            /\ SubSeq(trade_records', 1, Len(trade_records)) = trade_records
            /\ trade_records'[Len(trade_records')].date = trading_days[day]
            /\ account.current_date = trading_days[day]
            /\ trade_records'[Len(trade_records')].action =
                 (IF pc = "sell" THEN "sell" ELSE "buy")
            /\ Len(daily_records) = day - 1
            /\ daily_records' = daily_records
       /\ daily_records' # daily_records =>
            /\ pc = "buy" /\ pc' \in {"settle", "done"}
            /\ daily_records' =
                 Append(daily_records, daily_records'[Len(daily_records')])
            /\ Len(daily_records') = day
            /\ daily_records'[day].date = trading_days[day]
            /\ trade_records' = trade_records
       /\ TradeLogOrdered(trade_records')
       /\ \A i, j \in DOMAIN daily_records' :
            i < j => daily_records'[i].date < daily_records'[j].date]_vars

\* the snapshot of a day with a sell and a buy is taken, on the third day
\* or later
C19_Witness ==
    /\ DayDone
    /\ day >= 3
    /\ Len(daily_records) = day
    /\ \E i, j \in DOMAIN trade_records :
         /\ i < j
         /\ trade_records[i].date = trading_days[day]
         /\ trade_records[i].action = "sell"
         /\ trade_records[j].date = trading_days[day]
         /\ trade_records[j].action = "buy"

\* the sell records of the day in progress for ticker t
TodaysSells(t) ==
    IF day = 0 THEN <<>>
    ELSE SelectSeq(trade_records,
                   LAMBDA r : /\ r.date = trading_days[day]
                              /\ r.action = "sell" /\ r.ticker = t)

\* C20: in the sell phase the visit of an instrument with positive settled
\* shares records one sell trade, of the entire settled position, at the
\* day's close, with the commission applied, whatever the premium rate, and
\* leaves it no settled shares; no instrument gets a second sell trade on
\* the day; once the sell phase is over and until the next settlement every
\* instrument's settled shares are 0.
C20_SellsAllSettled ==
    [][/\ (pc = "sell" /\ idx <= Len(ticker_list)) =>
            LET t      == ticker_list[idx]
                shares == get_available_shares(account, t)
                gross  == TimesPrice(shares, rows[t].close)
                fee    == Percent(gross, config.commission_rate)
            IN  /\ shares > 0 =>
                     /\ trade_records' = Append(trade_records,
                          [date |-> trading_days[day], action |-> "sell",
                           ticker |-> t, shares |-> shares,
                           price |-> rows[t].close, amount |-> gross,
                           fee |-> fee, net_amount |-> gross - fee])
                     /\ account'.cash = account.cash + gross - fee
                /\ shares <= 0 => trade_records' = trade_records
                /\ get_available_shares(account', t) = 0
       /\ \A t \in Tickers :
            /\ Len(TodaysSells(t))' <= 1
            /\ pc' \in {"buy", "settle", "done"} =>
                 get_available_shares(account', t) = 0]_vars

\* settled shares were sold at a close below the nav
C20_Witness ==
    /\ pc = "buy"
    /\ \E t \in Range(ticker_list) :
         /\ Len(TodaysSells(t)) = 1
         /\ TodaysSells(t)[1].shares > 0
         /\ TodaysSells(t)[1].price = rows[t].close
         /\ rows[t].premium_rate < 0
         /\ get_available_shares(account, t) = 0

-----------------------------------------------------------------------------
(* Properties of the end-to-end scenario (ScenarioSpec) *)

\* the records of the trade log with the given action
TradesOf(action) == SelectSeq(trade_records, LAMBDA r : r.action = action)

\* C13: in the scenario the run records exactly two buy trades, on day 1
\* and on day 3, and when the snapshots of day 2 and of day 4 are taken
\* nothing is settled, shares are pending, and the snapshot's positions
\* value is the positive value of those pending shares.
C13_TwoBuys ==
    /\ pc = "done" =>
         /\ Len(TradesOf("buy")) = 2
         /\ TradesOf("buy")[1].date = trading_days[1]
         /\ TradesOf("buy")[2].date = trading_days[3]
         /\ daily_records[2].positions_value > 0
         /\ daily_records[4].positions_value > 0
    /\ (DayDone /\ day \in {2, 4}) =>
         /\ get_available_shares(account, "A") = 0
         /\ get_pending_shares(account, "A") > 0
         /\ daily_records[day].positions_value =
              PendingValue(account.pending, Prices(ticker_list, rows))
         /\ daily_records[day].positions_value > 0

\* the run of the scenario is over, with both buys and five snapshots
C13_Witness ==
    /\ pc = "done"
    /\ Len(daily_records) = 5
    /\ Len(TradesOf("buy")) = 2
    /\ daily_records[4].positions_value > 0

\* C14 as stated: the shares bought on day 1 are settled on day 5, and
\* they are what the snapshot of day 5 accounts for.
C14_Day1SettlesDay5 ==
    /\ \A s \in settle_log : s.bought_idx = 1 => s.settled_idx = 5
    /\ pc = "done" => \E s \in settle_log : s.bought_idx = 1

\* C14 amended: the shares bought on day 1 are settled and sold on day 3;
\* the shares settled on day 5 are those bought on day 3, they are sold in
\* day 5's sell phase, and the snapshot of day 5 accounts for their
\* proceeds: all of the equity is cash and the positions value is 0.
C14_Day3SettlesDay5 ==
    /\ \A s \in settle_log :
         /\ s.bought_idx \in {1, 3}
         /\ s.settled_idx = s.bought_idx + 2
    /\ pc = "done" =>
         /\ settle_log = {[bought_idx |-> b, date |-> trading_days[b + 2],
                           settled_idx |-> b + 2] : b \in {1, 3}}
         /\ Len(TradesOf("sell")) = 2
         /\ \A k \in 1..2 :
              /\ TradesOf("sell")[k].date = trading_days[2 * k + 1]
              /\ TradesOf("sell")[k].shares = TradesOf("buy")[k].shares
         /\ get_total_shares(account, "A") = 0
         /\ daily_records[5].positions_value = 0
         /\ daily_records[5].cash = account.cash
         /\ daily_records[5].total_assets = account.cash
         /\ account.cash > 0

\* the run is over and the shares bought on day 3 were sold on day 5
C14_Witness ==
    /\ pc = "done"
    /\ Len(TradesOf("sell")) = 2
    /\ TradesOf("sell")[2].date = trading_days[5]
    /\ TradesOf("sell")[2].shares > 0
    /\ daily_records[5].positions_value = 0

-----------------------------------------------------------------------------
(* Properties of max_drawdown (DrawdownSpec) *)

\* the highest of the first i values of s
PeakAt(s, i) == CHOOSE m \in {s[j] : j \in 1..i} : \A j \in 1..i : s[j] <= m

\* C15: max_drawdown is the maximum over the series of
\* (running peak - value) / running peak; it is exactly 0 for every
\* non-decreasing positive series, and strictly positive whenever some
\* value is below an earlier one.
C15_MaxDrawdown ==
    LET s  == dd_call.total_assets
        dd == dd_call.max_drawdown
        at(i) == [num |-> PeakAt(s, i) - s[i], den |-> PeakAt(s, i)]
    IN  s # <<>> =>
          /\ \A i \in DOMAIN s : ~FracLess(dd, at(i))
          /\ \E i \in DOMAIN s : FracEq(dd, at(i))
          /\ ((\A i \in DOMAIN s : s[i] > 0)
                /\ \A i, j \in DOMAIN s : i < j => s[i] <= s[j])
               => dd.num = 0
          /\ (\E i, j \in DOMAIN s : i < j /\ s[j] < s[i]) =>
               dd.num > 0 /\ dd.den > 0

\* a series that rises to a new peak after its deepest fall: 40, 30, 50, 40
\* has the drawdown 10/40 of its second value
C15_Witness ==
    /\ dd_call.total_assets = <<40, 30, 50, 40>>
    /\ FracEq(dd_call.max_drawdown, [num |-> 1, den |-> 4])

-----------------------------------------------------------------------------
(* Properties of _resample_limits_to_daily (LimitSpec) *)

\* the stored rows of a ticker, in stored order
EventsOf(t) == SelectSeq(limits.db, LAMBDA ev : ev.ticker = t)

\* the date is covered by the row: from its start to its end, both
\* included, or from its start on when the end is NULL
Covers(ev, d) ==
    \/ ev.end_date # NaT /\ ev.start_date <= d /\ d <= ev.end_date
    \/ ev.end_date = NaT /\ d >= ev.start_date

\* C16: for a ticker with a single limit event the daily limit of a date is
\* the event's max_amount if and only if the event covers the date, and
\* infinite on every other date; a ticker with no event of its own has an
\* infinite limit on every date.
C16_SingleEvent ==
    \A t \in Tickers : \A i \in DOMAIN DateIndex :
      LET cap == limits.daily_limit[t][i]
      IN  /\ Len(EventsOf(t)) = 0 => cap = Inf
          /\ Len(EventsOf(t)) = 1 =>
               /\ cap = EventsOf(t)[1].max_amount
                    <=> Covers(EventsOf(t)[1], DateIndex[i])
               /\ cap = Inf <=> ~Covers(EventsOf(t)[1], DateIndex[i])

\* fund A has a single event, from the second date to the fifth; fund B has
\* none of its own: A is limited on the fifth date and not on the sixth, B
\* never
C16_Witness ==
    /\ Len(EventsOf("A")) = 1
    /\ EventsOf("A")[1].start_date = 2 /\ EventsOf("A")[1].end_date = 5
    /\ limits.daily_limit["A"] = <<Inf, 10, 10, 10, Inf>>
    /\ Len(EventsOf("B")) = 0
    /\ limits.daily_limit["B"] = <<Inf, Inf, Inf, Inf, Inf>>

\* C17: on a date covered by several events of the ticker the daily limit
\* is the max_amount of the covering event stored last, whether it is
\* larger or smaller than the others.
C17_LastEventWins ==
    \A t \in Tickers : \A i \in DOMAIN DateIndex :
      \A k \in DOMAIN EventsOf(t) :
        (/\ Covers(EventsOf(t)[k], DateIndex[i])
         /\ \A j \in DOMAIN EventsOf(t) :
              j > k => ~Covers(EventsOf(t)[j], DateIndex[i]))
          => limits.daily_limit[t][i] = EventsOf(t)[k].max_amount

\* two events of fund A cover the fifth date, the later one with the larger
\* amount, and the limit of that date is the larger amount
C17_Witness ==
    /\ Len(EventsOf("A")) = 2
    /\ Covers(EventsOf("A")[1], 5) /\ Covers(EventsOf("A")[2], 5)
    /\ EventsOf("A")[1].max_amount = 10
    /\ EventsOf("A")[2].max_amount = 15
    /\ limits.daily_limit["A"][4] = 15

-----------------------------------------------------------------------------
(* Properties of AnnouncementProcessor.process_pdf (ProcessorSpec) *)

\* C18: in every result success = True implies error is None; and when the
\* text extraction fails the LLM is not called, nothing is stored, and
\* success, extracted and stored are all False.
C18_SuccessMeansNoError ==
    proc.calls > 0 =>
      /\ proc.result.success => proc.result.error = "None"
      /\ ~proc.pdf.extract_ok =>
           /\ ~proc.llm_called
           /\ proc.db = proc.db_before
           /\ ~proc.result.success
           /\ ~proc.result.extracted
           /\ ~proc.result.stored

-----------------------------------------------------------------------------
(* Properties of the buy phase (Spec) *)

\* the tickers of the candidate list of the day
CandidateTickers == {buy_candidates[i].ticker : i \in DOMAIN buy_candidates}

\* C21: an instrument is a buy candidate of the day iff its premium rate is
\* strictly above the buy threshold and its daily limit is strictly
\* positive, and no buy is recorded on a day for an instrument whose
\* premium rate is at or below the threshold or whose daily limit is not
\* positive.
C21_CandidateRule ==
    /\ pc = "buy" =>
         \A t \in Range(ticker_list) :
           t \in CandidateTickers <=>
             (rows[t].premium_rate > config.buy_threshold
              /\ rows[t].daily_limit > 0)
    /\ \A i \in DOMAIN TodaysBuys :
         /\ rows[TodaysBuys[i].ticker].premium_rate > config.buy_threshold
         /\ rows[TodaysBuys[i].ticker].daily_limit > 0

\* a day ends with cash left and nothing bought of an instrument whose
\* premium rate equals the threshold, while the other instrument was bought
C21_Witness ==
    /\ DayDone
    /\ account.cash > 0
    /\ \E t \in Range(ticker_list) :
         /\ rows[t].premium_rate = config.buy_threshold
         /\ rows[t].daily_limit > 0
         /\ t \notin CandidateTickers
         /\ \A i \in DOMAIN TodaysBuys : TodaysBuys[i].ticker # t
    /\ TodaysBuys # <<>>

\* the liquidity cap of a row: effective volume x liquidity ratio x close
LiquidCap(row, cfg) ==
    TimesPrice(Percent(IF cfg.use_ma5_liquidity
                       THEN Min(row.volume, row.ma5_volume)
                       ELSE row.volume,
                       cfg.liquidity_ratio),
               row.close)

\* C22: the amount of every executed buy is the minimum of the daily limit,
\* the liquidity cap, the cash when the risk mode is 'fixed' and nothing
\* when it is 'infinite', and the signal amount (unbounded in the day loop);
\* in 'infinite' mode the cash does not limit the amount.
C22_AmountIsMinOfCaps ==
    [][(pc = "buy" /\ Len(trade_records') = Len(trade_records) + 1) =>
         LET row == rows[buy_candidates[idx].ticker]
             cash_cap == IF config.risk_mode = "fixed"
                         THEN account.cash ELSE Inf
         IN  trade_records'[Len(trade_records')].amount =
               Min(Min(row.daily_limit, LiquidCap(row, config)),
                   Min(cash_cap, Inf))]_vars

\* C23: a candidate whose capped amount is at most the fee on it is skipped
\* with the ledger and the trade log untouched, and the walk goes on to the
\* next candidate; every recorded buy has amount > fee, net_amount > 0 and
\* shares > 0.
C23_SkipsWhenFeeEatsAmount ==
    [][/\ (pc = "buy" /\ idx' = idx + 1) =>
            LET t      == buy_candidates[idx].ticker
                capped == Min(Min(rows[t].daily_limit,
                                  LiquidCap(rows[t], config)),
                              account.cash)
                fee    == calculate_subscription_fee(capped, FeeAttrs(t))
            IN  capped <= fee =>
                  /\ account' = account
                  /\ trade_records' = trade_records
                  /\ pc' = "buy"
                  /\ raised' = "none"
       /\ \A i \in DOMAIN trade_records' :
            trade_records'[i].action = "buy" =>
              /\ trade_records'[i].amount > trade_records'[i].fee
              /\ trade_records'[i].net_amount > 0
              /\ trade_records'[i].shares > 0]_vars

\* the first candidate of the day was skipped, its capped amount being no
\* more than its fee, and the second candidate was bought after it
C23_Witness ==
    /\ DayDone
    /\ Len(buy_candidates) = 2
    /\ Len(TodaysBuys) = 1
    /\ TodaysBuys[1].ticker = buy_candidates[2].ticker
    /\ buy_candidates[1].ticker # buy_candidates[2].ticker
    /\ rows[buy_candidates[1].ticker].daily_limit > 0

\* the cash at the start of the day in progress: the cash of the previous
\* day's record, or the initial cash on the first day
StartOfDayCash ==
    IF Len(daily_records) = 0 THEN config.initial_cash
    ELSE daily_records[Len(daily_records)].cash

\* all the sell records of the day in progress
TodaysSellsAll ==
    IF day = 0 THEN <<>>
    ELSE SelectSeq(trade_records,
                   LAMBDA r : r.date = trading_days[day] /\ r.action = "sell")

RECURSIVE SumNetAmounts(_)
SumNetAmounts(s) ==
    IF s = <<>> THEN 0 ELSE Head(s).net_amount + SumNetAmounts(Tail(s))

\* C24: the net proceeds (shares x close x (1 - commission rate)) of the
\* sells of a day are in the cash at once: during the day's buy phase the
\* cash plus the day's buy amounts equals the cash at the start of the day
\* plus the net proceeds of the day's sells, so the cash the first candidate
\* of the day meets is the start-of-day cash plus those proceeds.
C24_ProceedsAtOnce ==
    pc = "buy" =>
      /\ \A i \in DOMAIN TodaysSellsAll :
           LET r == TodaysSellsAll[i]
               gross == TimesPrice(r.shares, rows[r.ticker].close)
           IN  r.net_amount = gross - Percent(gross, config.commission_rate)
      /\ account.cash + SumAmounts(TodaysBuys) =
           StartOfDayCash + SumNetAmounts(TodaysSellsAll)

\* a buy of more than the cash the day began with, paid from the proceeds of
\* the same day's sell
C24_Witness ==
    /\ pc = "buy"
    /\ TodaysSellsAll # <<>>
    /\ TodaysBuys # <<>>
    /\ TodaysBuys[1].amount > StartOfDayCash
    /\ raised = "none"

-----------------------------------------------------------------------------
(* Properties of the trading calendar of the run (Spec) *)

\* the data is loaded and the day loop has started
Running == pc \in {"settle", "sell", "buy", "done"}

\* C25: the simulated days are exactly the dates on which every requested
\* instrument has a bar, in strictly increasing order, with exactly one
\* daily record per simulated day; on the day in progress every requested
\* instrument has a bar and a row in the day's steps.
C25_DaysAreIntersection ==
    Running =>
      /\ \A d \in UNION {store[t].dates : t \in Range(ticker_list)} :
           (\E i \in DOMAIN trading_days : trading_days[i] = d)
             <=> (\A t \in Range(ticker_list) : d \in store[t].dates)
      /\ \A i \in DOMAIN trading_days :
           \A t \in Range(ticker_list) : trading_days[i] \in store[t].dates
      /\ \A i, j \in DOMAIN trading_days :
           i < j => trading_days[i] < trading_days[j]
      /\ Len(daily_records) = (IF pc \in {"settle", "done"} THEN day
                               ELSE day - 1)
      /\ \A i \in DOMAIN daily_records :
           daily_records[i].date = trading_days[i]
      /\ pc = "done" => Len(daily_records) = Len(trading_days)
      /\ day > 0 => DOMAIN rows = Range(ticker_list)

\* a finished run over two instruments, one of them with bars on dates the
\* other has none: only the common date was simulated
C25_Witness ==
    /\ pc = "done"
    /\ \E t, u \in Range(ticker_list) :
         /\ store[t].dates # store[u].dates
         /\ store[t].dates \cap store[u].dates = Range(trading_days)
         /\ Cardinality(store[u].dates) > Len(trading_days)
    /\ Len(daily_records) = Len(trading_days)

-----------------------------------------------------------------------------
(* The day loop against SimpleLOFStrategy (Spec) *)

\* the row of the day of ticker t as generate_signals gets it, with the
\* 'ticker' column _load_multi_data adds
SignalRow(t) ==
    [ticker |-> t, premium_rate |-> rows[t].premium_rate,
     daily_limit |-> rows[t].daily_limit, close |-> rows[t].close,
     nav |-> rows[t].nav, volume |-> rows[t].volume]

\* a signal with the action is among the signals
Emits(signals, action) ==
    \E i \in DOMAIN signals : signals[i].action = action

\* C26: the day loop decides as SimpleLOFStrategy.generate_signals would:
\* in the sell phase the first visit of an instrument records a sell iff
\* generate_signals emits a sell signal for its row and the settled
\* positions (which, for an instrument not yet visited, are those left by
\* the day's settlement: a visit changes no other instrument's settled
\* shares), a later visit of the same instrument records nothing, and the
\* candidates of the buy phase are the instruments for which it emits a buy
\* signal.
C26_LoopFollowsSignals ==
    [][/\ (pc = "sell" /\ idx <= Len(ticker_list)) =>
            LET t       == ticker_list[idx]
                signals == generate_signals(SignalRow(t), account.positions,
                                            config)
                first   == \A j \in 1..(idx - 1) : ticker_list[j] # t
                sold    == /\ Len(trade_records') = Len(trade_records) + 1
                           /\ trade_records'[Len(trade_records')].action = "sell"
                           /\ trade_records'[Len(trade_records')].ticker = t
            IN  /\ first => (sold <=> Emits(signals, "sell"))
                /\ ~first => trade_records' = trade_records
                /\ \A u \in Range(ticker_list) \ {t} :
                     get_available_shares(account', u) =
                       get_available_shares(account, u)
       /\ (pc = "sell" /\ idx > Len(ticker_list)) =>
            \A t \in Range(ticker_list) :
              (\E i \in DOMAIN buy_candidates' : buy_candidates'[i].ticker = t)
                <=> Emits(generate_signals(SignalRow(t), account.positions,
                                           config), "buy")]_vars

\* an instrument that was sold in the sell phase heads the candidates of the
\* same day's buy phase, and another held instrument is no candidate
C26_Witness ==
    /\ pc = "buy"
    /\ idx = 1
    /\ \E t, u \in Range(ticker_list) :
         /\ TodaysSells(t) # <<>>
         /\ buy_candidates # <<>>
         /\ buy_candidates[1].ticker = t
         /\ TodaysSells(u) # <<>>
         /\ u \notin CandidateTickers

-----------------------------------------------------------------------------
(* Properties of a failing Account.buy (AccountSpec) *)

\* C27: a buy that raises, for want of cash or because no date was ever
\* set, leaves the cash, the settled positions and the pending queue as
\* they were; the cash never goes down without one more pending entry.
C27_BuyAllOrNothing ==
    [][/\ (call'.op = "buy" /\ raised' # "none") =>
            /\ account'.cash = account.cash
            /\ account'.positions = account.positions
            /\ account'.pending = account.pending
       /\ account'.cash < account.cash =>
            Len(account'.pending) = Len(account.pending) + 1]_vars

-----------------------------------------------------------------------------
(* Properties of the daily record (Spec) *)

RECURSIVE PendingAtClose(_)
\* the pending entries valued at the closes of the day in progress
PendingAtClose(s) ==
    IF s = <<>> THEN 0
    ELSE TimesPrice(Head(s).shares, rows[Head(s).ticker].close)
         + PendingAtClose(Tail(s))

\* C28: when the daily record of a day is taken no instrument has settled
\* shares (what matured was sold in the day's sell phase and the day's buys
\* are pending), so the positions value of the record is the value of the
\* pending shares at the day's closes and nothing else.
C28_SnapshotOnlyPending ==
    DayDone =>
      /\ \A t \in Tickers : get_available_shares(account, t) = 0
      /\ \A t \in DOMAIN account.positions : account.positions[t] = 0
      /\ daily_records[Len(daily_records)].positions_value =
           PendingAtClose(account.pending)
      /\ \A i \in DOMAIN account.pending :
           account.pending[i].ticker \in Range(ticker_list)

\* on a day shares matured and were sold and new ones were bought: the
\* record of the day values the pending purchase alone
C28_Witness ==
    /\ DayDone
    /\ TodaysSellsAll # <<>>
    /\ TodaysBuys # <<>>
    /\ \E t \in DOMAIN account.positions : account.positions[t] = 0
    /\ daily_records[Len(daily_records)].positions_value > 0
    /\ daily_records[Len(daily_records)].positions_value =
         PendingAtClose(account.pending)

-----------------------------------------------------------------------------
(* The trade log against the ledger (Spec) *)

\* C29: every trade record has net_amount = amount - fee, and whenever a
\* simulated day is over the cash of the ledger is the initial cash, less
\* the amounts of all the buy records so far, plus the net amounts of all
\* the sell records so far.
C29_LogReconciles ==
    /\ \A i \in DOMAIN trade_records :
         trade_records[i].net_amount =
           trade_records[i].amount - trade_records[i].fee
    /\ DayDone =>
         account.cash = config.initial_cash
                          - SumAmounts(TradesOf("buy"))
                          + SumNetAmounts(TradesOf("sell"))

\* a day is over with a sell on which commission was paid and buys before
\* and after it in the log
C29_Witness ==
    /\ DayDone
    /\ Len(TradesOf("buy")) >= 2
    /\ \E i \in DOMAIN trade_records :
         /\ trade_records[i].action = "sell"
         /\ trade_records[i].fee > 0
         /\ trade_records[i].net_amount < trade_records[i].amount
         /\ \E j \in DOMAIN trade_records :
              j > i /\ trade_records[j].action = "buy"
    /\ account.cash # config.initial_cash

-----------------------------------------------------------------------------
(* Re-processing a PDF (ProcessorSpec) *)

\* the rows of the table stored for a file
RowsOf(db, pdf_filename) ==
    {row \in db.rows : row.pdf_filename = pdf_filename}

\* C30: however often process_pdf has stored the same PDF, the table
\* announcement_parses holds exactly one row for it, with the parse result
\* of the latest call.
C30_OneRowPerPdf ==
    (proc.calls > 0 /\ proc.result.stored) =>
      /\ Cardinality(RowsOf(proc.db, proc.pdf.name)) = 1
      /\ \A row \in RowsOf(proc.db, proc.pdf.name) :
           row.parse_result = proc.result.parse_result

====
